---- MODULE Spec2Model ----
(***************************************************************************)
(* POM introspection of the Oracle Tools GUI: process_POM and its nested   *)
(* determine_POM_settings (src/src/utils/pom.py).                          *)
(*                                                                         *)
(* Text is modelled as a sequence of tokens.  A token is a literal piece   *)
(* of text; the empty sequence is the empty string.  The token alphabet is *)
(* chosen so that tokenisation commutes with what the code does on         *)
(* characters:                                                             *)
(*   - only the token NL contains a newline;                               *)
(*   - only the one-character tokens BS and COLON contain a backslash or a *)
(*     colon that str.replace looks for (the literals PI, AO, SP are never *)
(*     part of a directory value);                                         *)
(*   - a token is either made of identifier characters [a-zA-Z0-9_.-]      *)
(*     only (IdTokens), or is the single character "=", or starts with a   *)
(*     character that is neither, or is PI (whose first non-identifier     *)
(*     character is a blank), so a maximal run of identifier characters is *)
(*     a maximal run of IdTokens;                                          *)
(*   - no concatenation of tokens contains the literal PI, AO, SP or EP    *)
(*     other than as that very token.                                      *)
(***************************************************************************)
EXTENDS Integers, Sequences, FiniteSets, TLC

VARIABLES
    pom_file,           \* argument of process_POM
    override,           \* argument db_config_dir as passed by the caller
    proc,               \* what the mvn subprocess does: stdout, stderr, returncode
    fs,                 \* the filesystem: path -> entries of that directory
    pc,                 \* position in process_POM
    cmd,                \* local of determine_POM_settings
    properties,         \* dict built by the scan
    profiles,           \* set built by the scan
    bundle,             \* the list `profiles` is rebound to by the classification
    db_config_dir,      \* local db_config_dir (rebound at line 134)
    dbs,                \* list of subdirectory names
    db_proxy_username,
    db_username,
    exc,                \* the exception that ended the call, if any
    ret                 \* the returned tuple, if any

vars == <<pom_file, override, proc, fs, pc, cmd, properties, profiles, bundle,
          db_config_dir, dbs, db_proxy_username, db_username, exc, ret>>

----------------------------------------------------------------------------
(* Tokens *)

NL    == "\n"
PI    == "Profile Id: "
AO    == " (Active: "
SP    == " , Source: pom)"
EP    == "[echoproperties] "
EQ    == "="
BS    == "\\"
COLON == ":"
INFO  == "[INFO] "

apex_profiles == << <<"apex-export">>, <<"apex-import">> >>

\* The list of the older launcher (src/src/oracle-tools-gui.py, line 158).
db_profiles_legacy == << <<"db-install">>, <<"db-test">>,
                         <<"db-generate-ddl-full">>, <<"db-generate-ddl-incr">> >>

db_profiles == << <<"db-info">>, <<"db-install">>, <<"db-code-check">>, <<"db-test">>,
                  <<"db-generate-ddl-full">>, <<"db-generate-ddl-incr">> >>

KEY_db_config_dir     == <<"db.config.dir">>
KEY_db_proxy_username == <<"db.proxy.username">>
KEY_db_username       == <<"db.username">>

\* Spare profile ids that belong to neither bundle.
ExtraIdList == <<"conf-inquiry", "db-run", "apex-seed">>

\* The tokens that consist of characters of [a-zA-Z0-9_.-] only.
IdTokens ==
    {"apex-export", "apex-import", "db-info", "db-install", "db-code-check", "db-test",
     "db-generate-ddl-full", "db-generate-ddl-incr",
     "conf-inquiry", "db-run", "apex-seed",
     "db.config.dir", "db.proxy.username", "db.username",
     "alice", "proxyacct", "false", "C", "tmp", "conf"}

Range(s) == {s[i] : i \in 1..Len(s)}

----------------------------------------------------------------------------
(* re.search(r"Profile Id: ([a-zA-Z0-9_.-]+) \(Active: .*, Source: pom\)", line) *)

\* Index of the last token of the maximal run of identifier tokens that
\* starts at index j (j - 1 when line[j] is no identifier token).
RECURSIVE IdRunEnd(_, _)
IdRunEnd(line, j) ==
    IF j <= Len(line) /\ line[j] \in IdTokens THEN IdRunEnd(line, j + 1) ELSE j - 1

ProfileMatchAt(line, j) ==
    /\ j <= Len(line)
    /\ line[j] = PI
    /\ LET e == IdRunEnd(line, j + 1) IN
        /\ e >= j + 1
        /\ e + 1 <= Len(line)
        /\ line[e + 1] = AO
        /\ \E k \in (e + 2)..Len(line) : line[k] = SP

\* The match object: matched, and group(1) of the leftmost match.
search_profile(line) ==
    LET hits == {j \in 1..Len(line) : ProfileMatchAt(line, j)} IN
    IF hits = {} THEN [matched |-> FALSE, group1 |-> <<>>]
    ELSE LET j == CHOOSE x \in hits : \A y \in hits : x <= y IN
         [matched |-> TRUE, group1 |-> SubSeq(line, j + 1, IdRunEnd(line, j + 1))]

(* re.match(r'\[echoproperties\] ([a-zA-Z0-9_.-]+)=(.+)$', line) *)
match_property(line) ==
    LET e == IdRunEnd(line, 2) IN
    IF /\ Len(line) >= 1
       /\ line[1] = EP
       /\ e >= 2
       /\ e + 1 <= Len(line)
       /\ line[e + 1] = EQ
       /\ e + 2 <= Len(line)
    THEN [matched |-> TRUE, group1 |-> SubSeq(line, 2, e),
          group2 |-> SubSeq(line, e + 2, Len(line))]
    ELSE [matched |-> FALSE, group1 |-> <<>>, group2 |-> <<>>]

----------------------------------------------------------------------------
(* The scan of stdout, lines 104-120 *)

\* dict.setdefault(key, value): the first value of a key stays.
dict_setdefault(d, key, value) ==
    [k \in DOMAIN d \cup {key} |-> IF k \in DOMAIN d THEN d[k] ELSE value]

\* properties[key] = value on a dict
dict_set(d, key, value) ==
    [k \in DOMAIN d \cup {key} |-> IF k = key THEN value ELSE d[k]]

\* dict.get(key, '')
dict_get(d, key) == IF key \in DOMAIN d THEN d[key] ELSE <<>>

EmptyDict == [k \in {} |-> <<>>]

\* The body of the else branch, lines 109-119: one complete line.
process_line(line, props, profs) ==
    LET m == search_profile(line) IN
    IF m.matched
    THEN [properties |-> props, profiles |-> profs \cup {m.group1}]
    ELSE LET m2 == match_property(line) IN
         IF m2.matched
         THEN [properties |-> dict_set(props, m2.group1, m2.group2), profiles |-> profs]
         ELSE [properties |-> props, profiles |-> profs]

\* for ch in stdout: ..., from position i with the partial line `line`.
RECURSIVE scan_from(_, _, _, _, _)
scan_from(stdout, i, line, props, profs) ==
    IF i > Len(stdout)
    THEN [properties |-> props, profiles |-> profs]
    ELSE IF stdout[i] # NL
         THEN scan_from(stdout, i + 1, Append(line, stdout[i]), props, profs)
         ELSE LET r == process_line(line, props, profs) IN
              scan_from(stdout, i + 1, <<>>, r.properties, r.profiles)

scan_stdout(stdout) == scan_from(stdout, 1, <<>>, EmptyDict, {})

----------------------------------------------------------------------------
(* determine_POM_settings, lines 88-101: the command and the failure *)

\* Lines 88-90: the command line.
build_cmd(file, dir) ==
    <<"mvn --file ">> \o file \o <<" -N help:all-profiles -Pconf-inquiry compile">>
        \o (IF dir # <<>> THEN <<" -Ddb.config.dir=">> \o dir ELSE <<>>)

\* collect_error that stops one character early.
RECURSIVE collect_error_short(_, _, _)
collect_error_short(stderr, i, error) ==
    IF i >= Len(stderr) THEN error
    ELSE collect_error_short(stderr, i + 1, Append(error, stderr[i]))

\* Lines 98-100: error = ''; for ch in stderr: error += ch
RECURSIVE collect_error(_, _, _)
collect_error(stderr, i, error) ==
    IF i > Len(stderr) THEN error
    ELSE collect_error(stderr, i + 1, Append(error, stderr[i]))

\* Line 94: mvn.returncode == 0
returncode_ok(returncode) == returncode = 0

NoExc == [type |-> "none", at |-> 0, cmd |-> <<>>, returncode |-> 0,
          error |-> <<>>, profiles |-> {}]

raise(type, at) == [NoExc EXCEPT !.type = type, !.at = at]

----------------------------------------------------------------------------
(* process_POM, lines 124-151 *)

\* classify without the final else: an unclassified set falls through as database.
classify_no_raise(profs) ==
    IF Range(apex_profiles) \subseteq profs
    THEN [ok |-> TRUE, profiles |-> apex_profiles]
    ELSE [ok |-> TRUE, profiles |-> db_profiles]

\* classify with the Apex test on any member instead of all members.
classify_any_apex(profs) ==
    IF Range(apex_profiles) \cap profs # {}
    THEN [ok |-> TRUE, profiles |-> apex_profiles]
    ELSE IF Range(db_profiles) \subseteq profs
         THEN [ok |-> TRUE, profiles |-> db_profiles]
         ELSE [ok |-> FALSE, profiles |-> <<>>]

\* classify with the two tests in the other order.
classify_db_first(profs) ==
    IF Range(db_profiles) \subseteq profs
    THEN [ok |-> TRUE, profiles |-> db_profiles]
    ELSE IF Range(apex_profiles) \subseteq profs
         THEN [ok |-> TRUE, profiles |-> apex_profiles]
         ELSE [ok |-> FALSE, profiles |-> <<>>]

\* Lines 126-131.  ok = FALSE stands for the raise at line 131.
classify(profs) ==
    IF Range(apex_profiles) \subseteq profs
    THEN [ok |-> TRUE, profiles |-> apex_profiles]
    ELSE IF Range(db_profiles) \subseteq profs
         THEN [ok |-> TRUE, profiles |-> db_profiles]
         ELSE [ok |-> FALSE, profiles |-> <<>>]

\* str.replace(old, new): leftmost, non-overlapping occurrences (old non-empty).
RECURSIVE str_replace(_, _, _)
str_replace(s, old, new) ==
    IF Len(s) < Len(old) THEN s
    ELSE IF SubSeq(s, 1, Len(old)) = old
         THEN new \o str_replace(SubSeq(s, Len(old) + 1, Len(s)), old, new)
         ELSE <<s[1]>> \o str_replace(Tail(s), old, new)

\* The two replacements of line 134 in the other order.
normalize_swapped(value) ==
    str_replace(str_replace(value, <<BS, BS>>, <<BS>>), <<BS, COLON>>, <<COLON>>)

\* Line 134: properties.get('db.config.dir', '').replace('\\:', ':').replace('\\\\', '\\')
normalize(value) ==
    str_replace(str_replace(value, <<BS, COLON>>, <<COLON>>), <<BS, BS>>, <<BS>>)

\* Lines 132-134.
resolve_db_config_dir(dir, props) ==
    IF dir = <<>> THEN normalize(dict_get(props, KEY_db_config_dir)) ELSE dir

\* Lines 138-143: [d.name for d in filter(Path.is_dir, p.iterdir())]; any
\* exception of iterdir (the path is missing or is no directory) leaves [].
list_dbs(filesystem, dir) ==
    IF dir \in DOMAIN filesystem
    THEN LET kept == SelectSeq(filesystem[dir], LAMBDA d : d.is_dir) IN
         [i \in 1..Len(kept) |-> kept[i].name]
    ELSE <<>>

\* The test of the older launcher (src/src/oracle-tools-gui.py, line 176).
credentials_proxy_only(proxy_username, username) == proxy_username # <<>>

\* Line 148: assert db_proxy_username or db_username
credentials_ok(proxy_username, username) == proxy_username # <<>> \/ username # <<>>

----------------------------------------------------------------------------
(* The call, step by step *)

\* Lines 88-92: build the command, run it, wait for it.
Popen ==
    /\ pc = "start"
    /\ cmd' = build_cmd(pom_file, override)
    /\ pc' = "communicated"
    /\ UNCHANGED <<pom_file, override, proc, fs, properties, profiles, bundle,
                   db_config_dir, dbs, db_proxy_username, db_username, exc, ret>>

\* Lines 94-101.
CheckReturncode ==
    /\ pc = "communicated"
    /\ IF returncode_ok(proc.returncode)
       THEN /\ pc' = "scan"
            /\ exc' = exc
       ELSE /\ pc' = "raised"
            /\ exc' = [raise("Exception", 101) EXCEPT
                         !.cmd = cmd,
                         !.returncode = proc.returncode,
                         !.error = collect_error(proc.stderr, 1, <<>>)]
    /\ UNCHANGED <<pom_file, override, proc, fs, cmd, properties, profiles, bundle,
                   db_config_dir, dbs, db_proxy_username, db_username, ret>>

\* Lines 104-120 and the unpacking at line 123.
Scan ==
    /\ pc = "scan"
    /\ LET r == scan_stdout(proc.stdout) IN
        /\ properties' = r.properties
        /\ profiles' = r.profiles
    /\ pc' = "classify"
    /\ UNCHANGED <<pom_file, override, proc, fs, cmd, bundle,
                   db_config_dir, dbs, db_proxy_username, db_username, exc, ret>>

\* Lines 124-131.
Classify ==
    /\ pc = "classify"
    /\ LET c == classify(profiles) IN
       IF c.ok
       THEN /\ bundle' = c.profiles
            /\ pc' = "resolve"
            /\ exc' = exc
       ELSE /\ bundle' = bundle
            /\ pc' = "raised"
            /\ exc' = [raise("Exception", 131) EXCEPT !.profiles = profiles]
    /\ UNCHANGED <<pom_file, override, proc, fs, cmd, properties, profiles,
                   db_config_dir, dbs, db_proxy_username, db_username, ret>>

\* Lines 132-136.
ResolveDir ==
    /\ pc = "resolve"
    /\ LET dir == resolve_db_config_dir(db_config_dir, properties) IN
        /\ db_config_dir' = dir
        /\ IF dir # <<>>
           THEN pc' = "list" /\ exc' = exc
           ELSE pc' = "raised" /\ exc' = raise("AssertionError", 135)
    /\ UNCHANGED <<pom_file, override, proc, fs, cmd, properties, profiles, bundle,
                   dbs, db_proxy_username, db_username, ret>>

\* Lines 138-144.  The message of the assert at line 144 is only built when
\* the assertion fails, and it subscripts properties['db.config.dir'].
ListDbs ==
    /\ pc = "list"
    /\ LET found == list_dbs(fs, db_config_dir) IN
        /\ dbs' = found
        /\ IF Len(found) > 0
           THEN pc' = "credentials" /\ exc' = exc
           ELSE /\ pc' = "raised"
                /\ exc' = IF KEY_db_config_dir \in DOMAIN properties
                          THEN raise("AssertionError", 144)
                          ELSE raise("KeyError", 144)
    /\ UNCHANGED <<pom_file, override, proc, fs, cmd, properties, profiles, bundle,
                   db_config_dir, db_proxy_username, db_username, ret>>

\* Lines 146-148.
Credentials ==
    /\ pc = "credentials"
    /\ LET pu == dict_get(properties, KEY_db_proxy_username)
           u  == dict_get(properties, KEY_db_username) IN
        /\ db_proxy_username' = pu
        /\ db_username' = u
        /\ IF credentials_ok(pu, u)
           THEN pc' = "return" /\ exc' = exc
           ELSE pc' = "raised" /\ exc' = raise("AssertionError", 148)
    /\ UNCHANGED <<pom_file, override, proc, fs, cmd, properties, profiles, bundle,
                   db_config_dir, dbs, ret>>

\* Lines 150-151.
Return ==
    /\ pc = "return"
    /\ ret' = <<db_config_dir, dbs, bundle, db_proxy_username, db_username>>
    /\ pc' = "returned"
    /\ UNCHANGED <<pom_file, override, proc, fs, cmd, properties, profiles, bundle,
                   db_config_dir, dbs, db_proxy_username, db_username, exc>>

Next ==
    \/ Popen
    \/ CheckReturncode
    \/ Scan
    \/ Classify
    \/ ResolveDir
    \/ ListDbs
    \/ Credentials
    \/ Return

----------------------------------------------------------------------------
(* Inputs: what mvn prints, what the caller passes, what the disk holds *)

\* The two profile bundles of the design, as mvn announces their members.
ApexBundle == << <<"apex-export">>, <<"apex-import">> >>

DatabaseBundle == << <<"db-info">>, <<"db-install">>, <<"db-code-check">>, <<"db-test">>,
                     <<"db-generate-ddl-full">>, <<"db-generate-ddl-incr">> >>

MaxLines      == 2   \* free lines of stdout after the profile block
MaxStderrLen  == 2   \* tokens of stderr
MaxReturncode == 2   \* exit statuses 0..MaxReturncode
NumExtra      == 1   \* unrecognised profile ids that mvn may announce
MaxDirLen     == 3   \* characters of an echoed db.config.dir value

SeqsUpTo(S, n) == UNION {[1..k -> S] : k \in 0..n}

ProfileLine(id) == <<PI>> \o id \o <<AO, "false", SP>>

EchoLine(key, value) == <<EP>> \o key \o <<EQ>> \o value

\* The lines joined by newlines; the last one is newline-terminated iff `terminated`.
RECURSIVE Join(_, _)
Join(lines, terminated) ==
    IF lines = <<>> THEN <<>>
    ELSE IF Len(lines) = 1
         THEN lines[1] \o (IF terminated THEN <<NL>> ELSE <<>>)
         ELSE lines[1] \o <<NL>> \o Join(Tail(lines), terminated)

ProfileLines(ids) == [i \in 1..Len(ids) |-> ProfileLine(ids[i])]

OptConf == <<"/opt/conf">>
Alice == <<"alice">>
ProxyAcct == <<"proxyacct">>

Populated == << [name |-> "dev", is_dir |-> TRUE], [name |-> "README", is_dir |-> FALSE],
                [name |-> "test", is_dir |-> TRUE], [name |-> "prod", is_dir |-> TRUE] >>
FilesOnly == << [name |-> "README", is_dir |-> FALSE] >>

EmptyFs == [p \in {} |-> <<>>]
DirWith(path, entries) == [p \in {path} |-> entries]

\* A run of mvn that would let the whole call succeed when scanned.
GoodStdout ==
    Join(ProfileLines(ApexBundle)
            \o <<EchoLine(KEY_db_config_dir, OptConf), EchoLine(KEY_db_username, Alice)>>,
         TRUE)

\* Runs of mvn with any exit status and any stderr.
ExitProcs ==
    {[stdout |-> out, stderr |-> err, returncode |-> rc] :
        out \in {<<>>, GoodStdout},
        err \in SeqsUpTo({"ERROR", NL}, MaxStderrLen),
        rc \in 0..MaxReturncode}

InitWith(Procs, Overrides, Filesystems) ==
    /\ pom_file = <<"pom.xml">>
    /\ override \in Overrides
    /\ proc \in Procs
    /\ fs \in Filesystems
    /\ pc = "start"
    /\ cmd = <<>>
    /\ properties = EmptyDict
    /\ profiles = {}
    /\ bundle = <<>>
    /\ db_config_dir = override
    /\ dbs = <<>>
    /\ db_proxy_username = <<>>
    /\ db_username = <<>>
    /\ exc = NoExc
    /\ ret = <<>>

(* Spec: a profile block followed by up to MaxLines free lines *)

LineCatalogue ==
    { EchoLine(KEY_db_config_dir, OptConf),
      EchoLine(KEY_db_proxy_username, ProxyAcct),
      EchoLine(KEY_db_proxy_username, <<>>),
      EchoLine(KEY_db_username, Alice),
      EchoLine(KEY_db_username, <<"alice", EQ, "proxyacct">>),
      ProfileLine(ApexBundle[2]),
      <<INFO>> \o EchoLine(KEY_db_username, Alice),
      EchoLine(KEY_db_username, ProfileLine(<<ExtraIdList[1]>>)) }

ProfileBlocks ==
    { <<ProfileLine(ApexBundle[1])>>, ProfileLines(ApexBundle), ProfileLines(DatabaseBundle) }

ScanStdouts ==
    {Join(block \o free, terminated) :
        block \in ProfileBlocks, free \in SeqsUpTo(LineCatalogue, MaxLines),
        terminated \in BOOLEAN}

ScanProcs ==
    {[stdout |-> out, stderr |-> <<>>, returncode |-> 0] : out \in ScanStdouts} \cup ExitProcs

Init ==
    InitWith(ScanProcs, {<<>>, OptConf},
             {EmptyFs, DirWith(OptConf, Populated), DirWith(OptConf, FilesOnly)})

Spec == Init /\ [][Next]_vars

(* SpecClassify: profile announcements in many orders *)

\* The ids mvn may announce: both bundles and NumExtra unrecognised ids.
ExtraIds == {ExtraIdList[i] : i \in 1..NumExtra}

AnnounceOrder ==
    DatabaseBundle \o ApexBundle \o [i \in 1..NumExtra |-> <<ExtraIdList[i]>>]

Rotate(s, k) == [i \in 1..Len(s) |-> s[((i + k - 1) % Len(s)) + 1]]
Reverse(s) == [i \in 1..Len(s) |-> s[Len(s) + 1 - i]]

AnnounceOrders ==
    {Rotate(AnnounceOrder, k) : k \in 0..(Len(AnnounceOrder) - 1)}
        \cup {Reverse(Rotate(AnnounceOrder, k)) : k \in 0..(Len(AnnounceOrder) - 1)}

\* Sets of announced ids: any part of the Apex bundle, the database bundle
\* whole, absent or with one member missing, any of the unrecognised ids.
AnnouncedSets ==
    {a \cup d \cup x :
        a \in SUBSET Range(ApexBundle),
        d \in {{}, Range(DatabaseBundle)} \cup {Range(DatabaseBundle) \ {m} : m \in Range(DatabaseBundle)},
        x \in SUBSET {<<e>> : e \in ExtraIds}}

PropertyTail == <<EchoLine(KEY_db_config_dir, OptConf), EchoLine(KEY_db_username, Alice)>>

ClassifyStdouts ==
    {Join(IF tail_first THEN PropertyTail \o announced ELSE announced \o PropertyTail, TRUE) :
        announced \in {ProfileLines(SelectSeq(order, LAMBDA id : id \in chosen)) :
                          order \in AnnounceOrders, chosen \in AnnouncedSets},
        tail_first \in BOOLEAN}

ClassifyProcs ==
    {[stdout |-> out, stderr |-> <<>>, returncode |-> 0] : out \in ClassifyStdouts}
        \cup ExitProcs

InitClassify ==
    InitWith(ClassifyProcs, {<<>>}, {EmptyFs, DirWith(OptConf, Populated)})

SpecClassify == InitClassify /\ [][Next]_vars

(* SpecDir: every short db.config.dir value over backslash, colon, letter *)

DirAlphabet == {BS, COLON, "C"}

EscapedExample == <<"C", BS, COLON, BS, BS, "tmp", BS, BS, "conf">>
PlainExample   == <<"C", COLON, BS, "tmp", BS, "conf">>

DirValues == SeqsUpTo(DirAlphabet, MaxDirLen) \cup {EscapedExample}

DirStdouts ==
    {Join(ProfileLines(ApexBundle) \o echoes \o <<EchoLine(KEY_db_username, Alice)>>, TRUE) :
        echoes \in {<<>>} \cup {<<EchoLine(KEY_db_config_dir, v)>> : v \in DirValues}}

DirProcs ==
    {[stdout |-> out, stderr |-> <<>>, returncode |-> 0] : out \in DirStdouts} \cup ExitProcs

DirFilesystems ==
    {EmptyFs} \cup
    {DirWith(p, Populated) :
        p \in (SeqsUpTo(DirAlphabet, MaxDirLen) \ {<<>>}) \cup {PlainExample, OptConf}}

InitDir == InitWith(DirProcs, {<<>>, OptConf}, DirFilesystems)

SpecDir == InitDir /\ [][Next]_vars

----------------------------------------------------------------------------
(* Vocabulary of the properties *)

SupersetOfApex == Range(ApexBundle) \subseteq profiles
SupersetOfDatabase == Range(DatabaseBundle) \subseteq profiles

\* The error kinds of the design, by the statement that raises them.
BuildToolError      == exc.type = "Exception" /\ exc.at = 101
ClassificationError == exc.type = "Exception" /\ exc.at = 131
ConfigError         == exc.type = "AssertionError" /\ exc.at \in {135, 144}
CredentialsError    == exc.type = "AssertionError" /\ exc.at = 148

Classified == pc \in {"resolve", "list", "credentials", "return", "returned", "raised"}
Scanned == pc = "classify" \/ (Classified /\ proc.returncode = 0)

\* C1: a discovered set that holds the database bundle and not the Apex
\* bundle yields, when the call returns, the database bundle in its declared
\* order, whatever the order of the announcements and the extra profiles.
C1_DatabaseBundleInDeclaredOrder ==
    (pc = "returned" /\ SupersetOfDatabase /\ ~SupersetOfApex)
        => (ret[3] = DatabaseBundle /\ ret[3] # ApexBundle)

\* The database bundle was announced in another order than the declared one,
\* after an unrecognised profile, and the call returned it.
C1_Witness ==
    /\ pc = "returned"
    /\ SupersetOfDatabase /\ ~SupersetOfApex
    /\ profiles # Range(DatabaseBundle)
    /\ SubSeq(proc.stdout, 1, 2) = <<PI, ExtraIdList[1]>>
    /\ \E i \in 1..Len(proc.stdout) : \E j \in (i + 1)..Len(proc.stdout) :
          proc.stdout[i] = "db-install" /\ proc.stdout[j] = "db-info"
    /\ ret[3] = DatabaseBundle

\* C2: after exit status 0, a discovered set that holds neither bundle ends
\* the call with the classification error, carrying the discovered set, and
\* no tuple, whatever was parsed and whatever the disk holds.
C2_NeitherBundleFails ==
    (proc.returncode = 0 /\ Classified /\ ~SupersetOfApex /\ ~SupersetOfDatabase)
        => (pc = "raised" /\ ClassificationError /\ exc.profiles = profiles /\ ret = <<>>)

\* Neither bundle, although properties were parsed and the directory is populated.
C2_Witness ==
    /\ pc = "raised" /\ ClassificationError
    /\ profiles # {} /\ ~SupersetOfApex /\ ~SupersetOfDatabase
    /\ KEY_db_username \in DOMAIN properties
    /\ fs # EmptyFs

\* C3 as stated: a returned tuple comes from a discovered set that holds
\* exactly one of the two bundles.
C3_ExactlyOneBundle ==
    pc = "returned" => (SupersetOfApex /\ ~SupersetOfDatabase) \/ (SupersetOfDatabase /\ ~SupersetOfApex)

\* C3 amended: a returned tuple comes from a discovered set that holds at
\* least one of the two bundles, and the tuple names the Apex bundle when the
\* set holds it (also when it holds both) and the database bundle otherwise.
C3_AtLeastOneBundle ==
    pc = "returned" =>
        /\ SupersetOfApex \/ SupersetOfDatabase
        /\ ret[3] = IF SupersetOfApex THEN ApexBundle ELSE DatabaseBundle

\* A tuple was returned from a discovered set that holds both bundles.
C3_Witness == pc = "returned" /\ SupersetOfApex /\ SupersetOfDatabase /\ ret # <<>>

\* C4: a discovered set that holds both bundles is classified as Apex.
C4_BothBundlesGiveApex ==
    (proc.returncode = 0 /\ Classified /\ SupersetOfApex /\ SupersetOfDatabase)
        => /\ bundle = ApexBundle
           /\ ~ClassificationError
           /\ pc = "returned" => ret[3] = ApexBundle

\* Both bundles announced, the database one first, and the Apex bundle returned.
C4_Witness ==
    /\ pc = "returned" /\ SupersetOfApex /\ SupersetOfDatabase
    /\ SubSeq(proc.stdout, 1, 2) = <<PI, "db-info">>
    /\ ret[3] = ApexBundle

----------------------------------------------------------------------------
(* The lines of stdout, read off the text rather than off the loop *)

\* The newline-terminated lines of s, in order; cur is the line under way.
RECURSIVE CompleteLines(_, _)
CompleteLines(s, cur) ==
    IF s = <<>> THEN <<>>
    ELSE IF Head(s) = NL
         THEN <<cur>> \o CompleteLines(Tail(s), <<>>)
         ELSE CompleteLines(Tail(s), Append(cur, Head(s)))

\* A line of the form [echoproperties] <key>=<value>, the value possibly empty.
FirstEq(line) == CHOOSE q \in 1..Len(line) : line[q] = EQ /\ \A t \in 1..(q - 1) : line[t] # EQ
IsEcho(line) ==
    /\ Len(line) >= 3
    /\ line[1] = EP
    /\ \E q \in 3..Len(line) : line[q] = EQ /\ \A t \in 2..(q - 1) : line[t] \in IdTokens
EchoKey(line) == SubSeq(line, 2, FirstEq(line) - 1)
EchoValue(line) == SubSeq(line, FirstEq(line) + 1, Len(line))

Contains(s, sub) == \E i \in 1..(Len(s) - Len(sub) + 1) : SubSeq(s, i, i + Len(sub) - 1) = sub

Max(S) == CHOOSE x \in S : \A y \in S : y <= x

\* C5: a last line without a newline is scanned as if a newline followed it.
C5_LastLineWithoutNewlineScanned ==
    Scanned =>
        LET r == scan_stdout(Append(proc.stdout, NL)) IN
        properties = r.properties /\ profiles = r.profiles

\* C6 as stated: after the scan each key holds the value of its last echo
\* line, whatever that value is, and a key without an echo line is absent.
C6_LastEchoWins ==
    Scanned =>
        LET lines == CompleteLines(proc.stdout, <<>>)
            echoes(k) == {i \in 1..Len(lines) : IsEcho(lines[i]) /\ EchoKey(lines[i]) = k}
            keys == {EchoKey(lines[i]) : i \in {j \in 1..Len(lines) : IsEcho(lines[j])}}
        IN /\ DOMAIN properties \subseteq keys
           /\ \A k \in keys : dict_get(properties, k) = EchoValue(lines[Max(echoes(k))])

\* C6 amended: after the scan each key holds the value of the last complete
\* echo line for it that has a non-empty value and holds no profile
\* announcement; a key without such a line is absent.  An echo with an empty
\* value neither stores nor overwrites.
C6_LastStoredEchoWins ==
    Scanned =>
        LET lines == CompleteLines(proc.stdout, <<>>)
            stored(i) == /\ IsEcho(lines[i])
                         /\ EchoValue(lines[i]) # <<>>
                         /\ ~search_profile(lines[i]).matched
            echoes(k) == {i \in 1..Len(lines) : stored(i) /\ EchoKey(lines[i]) = k}
            keys == {EchoKey(lines[i]) : i \in {j \in 1..Len(lines) : stored(j)}}
        IN /\ DOMAIN properties = keys
           /\ \A k \in keys : properties[k] = EchoValue(lines[Max(echoes(k))])

\* db.username echoed twice with different values: the second one is held.
C6_Witness ==
    /\ Scanned
    /\ Contains(proc.stdout, EchoLine(KEY_db_username, Alice) \o <<NL>>
                    \o EchoLine(KEY_db_username, <<"alice", EQ, "proxyacct">>) \o <<NL>>)
    /\ KEY_db_username \in DOMAIN properties
    /\ properties[KEY_db_username] = <<"alice", EQ, "proxyacct">>

NoSubdirectories(path) ==
    path \notin DOMAIN fs \/ \A i \in 1..Len(fs[path]) : ~fs[path][i].is_dir

\* C7: once classification succeeded and a directory was resolved, a
\* directory without subdirectories (or a missing one) ends the call with
\* the configuration error and nothing else, wherever the directory came from.
C7_NoSubdirectoriesIsConfigError ==
    (/\ proc.returncode = 0
     /\ pc \in {"credentials", "return", "returned", "raised"}
     /\ bundle # <<>>
     /\ db_config_dir # <<>>
     /\ NoSubdirectories(db_config_dir))
        => (pc = "raised" /\ ConfigError /\ ret = <<>>)

\* C8: once classification and the directory checks passed, the call fails
\* with the credentials error exactly when both user names are absent or
\* empty, and otherwise returns the pair (proxy user name, user name).
C8_Credentials ==
    (/\ proc.returncode = 0
     /\ pc \in {"return", "returned", "raised"}
     /\ bundle # <<>>
     /\ dbs # <<>>)
        => LET pu == IF KEY_db_proxy_username \in DOMAIN properties
                     THEN properties[KEY_db_proxy_username] ELSE <<>>
               u  == IF KEY_db_username \in DOMAIN properties
                     THEN properties[KEY_db_username] ELSE <<>>
           IN /\ (pu = <<>> /\ u = <<>>) <=> (pc = "raised" /\ CredentialsError)
              /\ pc = "raised" => ret = <<>>
              /\ pc = "returned" => (ret[4] = pu /\ ret[5] = u)

\* Only db.username=alice was stored: the pair is ("", "alice").
C8_Witness ==
    /\ pc = "returned"
    /\ KEY_db_proxy_username \notin DOMAIN properties
    /\ ret[4] = <<>> /\ ret[5] = Alice

\* C9: a non-zero exit status ends the call with the build tool error, which
\* carries the command, the status and all of stderr; nothing of stdout is
\* scanned and no tuple is returned.
C9_NonZeroExit ==
    (proc.returncode # 0 /\ pc \notin {"start", "communicated"})
        => /\ pc = "raised" /\ BuildToolError
           /\ exc.cmd = cmd /\ Len(cmd) >= 3
           /\ exc.returncode = proc.returncode
           /\ exc.error = proc.stderr
           /\ properties = EmptyDict /\ profiles = {}
           /\ ret = <<>>

\* mvn failed after printing output that would have been accepted.
C9_Witness ==
    /\ pc = "raised" /\ BuildToolError
    /\ proc.stdout = GoodStdout
    /\ Len(proc.stderr) >= 2
    /\ exc.error = proc.stderr
    /\ fs # EmptyFs

\* One pass over the value: backslash-colon gives a colon, two backslashes
\* give one, anything else is kept.
RECURSIVE Unescape(_)
Unescape(s) ==
    IF s = <<>> THEN <<>>
    ELSE IF Len(s) >= 2 /\ s[1] = BS /\ s[2] = COLON
         THEN <<COLON>> \o Unescape(SubSeq(s, 3, Len(s)))
         ELSE IF Len(s) >= 2 /\ s[1] = BS /\ s[2] = BS
              THEN <<BS>> \o Unescape(SubSeq(s, 3, Len(s)))
              ELSE <<s[1]>> \o Unescape(Tail(s))

\* C10: the directory is the caller's non-empty override, unchanged, and
\* otherwise the echoed db.config.dir with its escapes undone; with neither,
\* the call (once classified) ends with the configuration error.
C10_ConfigDirectory ==
    (/\ proc.returncode = 0
     /\ pc \in {"list", "credentials", "return", "returned", "raised"}
     /\ bundle # <<>>)
        => LET echoed == IF KEY_db_config_dir \in DOMAIN properties
                         THEN properties[KEY_db_config_dir] ELSE <<>>
               expected == IF override # <<>> THEN override ELSE Unescape(echoed)
           IN /\ db_config_dir = expected
              /\ pc = "returned" => ret[1] = expected
              /\ (override = <<>> /\ echoed = <<>>) => (pc = "raised" /\ ConfigError /\ ret = <<>>)

\* The escaped Windows path of the design is returned unescaped.
C10_Witness ==
    /\ pc = "returned"
    /\ override = <<>>
    /\ KEY_db_config_dir \in DOMAIN properties
    /\ properties[KEY_db_config_dir] = EscapedExample
    /\ ret[1] = PlainExample

====
